---- MODULE Spec2Model ----
(***************************************************************************)
(* A model of the Google Drive access layer:                               *)
(*   src/google_drive_integration.py  GoogleDriveAPIClient                 *)
(*   src/gdrive_mcp_server.py         the MCP tools forwarding to it       *)
(*   src/auth_setup.py                the /auth gateway and the consent    *)
(* The persisted token files, the authorization service, the clock and the *)
(* Drive service are the environment; every client method is one action.   *)
(***************************************************************************)
EXTENDS Integers, Sequences, FiniteSets, TLC

VARIABLES
    now,        \* the clock
    tokenFile,  \* user -> contents of tokens/<user>_token.pickle
    revoked,    \* user -> the authorization service rejects the refresh token
    user_id,    \* client -> the user it was constructed for
    service,    \* client -> self.service (the bound session handle)
    authLog,    \* client -> what authenticate() returned so far (history)
    drive,      \* the remote store: a sequence of entries, entry k has IdOf(k)
    last,       \* the last call: its inputs, what it issued, what it returned
    users,      \* users.json: user -> the stored password hash
    proc        \* process -> where it stands inside a call that persists a credential

vars == <<now, tokenFile, revoked, user_id, service, authLog, drive, last, users, proc>>

(***************************************************************************)
(* Bounds of the model.                                                    *)
(***************************************************************************)
MaxTime == 3
TokenLifetime == 2
MaxLen == 4
MaxEntries == 2
MaxChunk == 2
MaxPath == 5

Users == {"alice", "bob"}
Clients == {"c1", "c2"}

\* the processes that load and persist token files: the clients and the
\* gateway's request handler
Procs == Clients \cup {"gateway"}

\* a process outside any call
Idle == [pc |-> "idle", fn |-> "", user |-> "",
         creds |-> [kind |-> "none", token |-> FALSE, expiry |-> 0, refresh_token |-> FALSE]]

\* load_users() when users.json does not exist: {} (a user without an entry
\* has the hash NoHash)
NoHash == [set |-> FALSE, of |-> "", given |-> [head |-> "", tail |-> ""]]
NoUsers == [u \in Users |-> NoHash]

(***************************************************************************)
(* Credentials and the token file.                                         *)
(***************************************************************************)
\* os.path.exists(self.token_file) is false
AbsentFile == [kind |-> "absent", token |-> FALSE, expiry |-> 0, refresh_token |-> FALSE]
\* the file exists and pickle.load raises on it
CorruptFile == [kind |-> "corrupt", token |-> FALSE, expiry |-> 0, refresh_token |-> FALSE]
\* the file holds a pickled falsy object (creds is None)
NoneFile == [kind |-> "none", token |-> FALSE, expiry |-> 0, refresh_token |-> FALSE]

Creds(tok, exp, rt) == [kind |-> "creds", token |-> tok, expiry |-> exp, refresh_token |-> rt]

\* creds.expired
expired(creds, t) == t >= creds.expiry

\* creds.valid
valid(creds, t) == creds.token /\ ~expired(creds, t)

\* creds.refresh(Request()) when the authorization service accepts the refresh token
refresh(creds, t) == [creds EXCEPT !.token = TRUE, !.expiry = t + TokenLifetime]

NoService == [bound |-> FALSE, creds |-> NoneFile]

\* build("drive", "v3", credentials=creds)
build(creds) == [bound |-> TRUE, creds |-> creds]

\* A mutant of authenticate: the refresh block is entered for any credential
\* that has a refresh token, expired or not.
authenticate_eager(file, t, accepted) ==
    IF file.kind = "absent" \/ file.kind = "corrupt"
    THEN [ret |-> FALSE, file |-> file, refreshes |-> 0, svc |-> NoService]
    ELSE LET doRefresh == file.kind = "creds" /\ file.refresh_token
         IN  IF doRefresh /\ ~accepted
             THEN [ret |-> FALSE, file |-> file, refreshes |-> 1, svc |-> NoService]
             ELSE LET creds == IF doRefresh THEN refresh(file, t) ELSE file
                  IN  IF creds.kind = "none" \/ ~valid(creds, t)
                      THEN [ret |-> FALSE, file |-> creds, refreshes |-> IF doRefresh THEN 1 ELSE 0,
                            svc |-> NoService]
                      ELSE [ret |-> TRUE, file |-> creds, refreshes |-> IF doRefresh THEN 1 ELSE 0,
                            svc |-> build(creds)]

\* A mutant of authenticate: the refreshed credential is not written back.
authenticate_nopersist(file, t, accepted) ==
    IF file.kind = "absent" \/ file.kind = "corrupt"
    THEN [ret |-> FALSE, file |-> file, refreshes |-> 0, svc |-> NoService]
    ELSE LET doRefresh == file.kind = "creds" /\ expired(file, t) /\ file.refresh_token
         IN  IF doRefresh /\ ~accepted
             THEN [ret |-> FALSE, file |-> file, refreshes |-> 1, svc |-> NoService]
             ELSE LET creds == IF doRefresh THEN refresh(file, t) ELSE file
                  IN  IF creds.kind = "none" \/ ~valid(creds, t)
                      THEN [ret |-> FALSE, file |-> file, refreshes |-> IF doRefresh THEN 1 ELSE 0,
                            svc |-> NoService]
                      ELSE [ret |-> TRUE, file |-> file, refreshes |-> IF doRefresh THEN 1 ELSE 0,
                            svc |-> build(creds)]

\* A mutant of authenticate: the token file is opened for writing before the
\* refresh is attempted, so a rejected refresh leaves it truncated.
authenticate_truncating(file, t, accepted) ==
    IF file.kind = "absent" \/ file.kind = "corrupt"
    THEN [ret |-> FALSE, file |-> file, refreshes |-> 0, svc |-> NoService]
    ELSE LET doRefresh == file.kind = "creds" /\ expired(file, t) /\ file.refresh_token
         IN  IF doRefresh /\ ~accepted
             THEN [ret |-> FALSE, file |-> CorruptFile, refreshes |-> 1, svc |-> NoService]
             ELSE LET creds == IF doRefresh THEN refresh(file, t) ELSE file
                  IN  IF creds.kind = "none" \/ ~valid(creds, t)
                      THEN [ret |-> FALSE, file |-> creds, refreshes |-> IF doRefresh THEN 1 ELSE 0,
                            svc |-> NoService]
                      ELSE [ret |-> TRUE, file |-> creds, refreshes |-> IF doRefresh THEN 1 ELSE 0,
                            svc |-> build(creds)]

\* GoogleDriveAPIClient.authenticate on the token file `file` at time t;
\* `accepted` is the authorization service's answer to a refresh request.
\* ret: the value returned; file: the token file afterwards; refreshes: the
\* refresh requests sent; svc: the handle built (NoService when none is).
authenticate(file, t, accepted) ==
    IF file.kind = "absent" \/ file.kind = "corrupt"
    THEN [ret |-> FALSE, file |-> file, refreshes |-> 0, svc |-> NoService]
    ELSE LET doRefresh == file.kind = "creds" /\ expired(file, t) /\ file.refresh_token
         IN  IF doRefresh /\ ~accepted
             THEN \* creds.refresh raises: the except clause returns False
                  [ret |-> FALSE, file |-> file, refreshes |-> 1, svc |-> NoService]
             ELSE LET creds == IF doRefresh THEN refresh(file, t) ELSE file
                  IN  IF creds.kind = "none" \/ ~valid(creds, t)
                      THEN [ret |-> FALSE, file |-> creds, refreshes |-> IF doRefresh THEN 1 ELSE 0,
                            svc |-> NoService]
                      ELSE [ret |-> TRUE, file |-> creds, refreshes |-> IF doRefresh THEN 1 ELSE 0,
                            svc |-> build(creds)]

(***************************************************************************)
(* Strings.  A name or an identifier is a stem and the extension           *)
(* os.path.splitext finds in it; a content string is a sequence of code    *)
(* points; bytes are a sequence of 0..255.                                 *)
(***************************************************************************)
Str(stem, ext) == [stem |-> stem, ext |-> ext]

\* len(s)
StrLen(s) == Len(s.stem) + Len(s.ext)

\* None and "" (both falsy where the code tests them)
NoneStr == Str("", "")

\* the sentinel "root"
ROOT == Str("root", "")

\* str.lower on the extensions the model uses
lower(ext) ==
    CASE ext = ".TXT" -> ".txt"
      [] OTHER -> ext

EXTENSION_TO_MIME ==
    (".txt" :> "text/plain") @@ (".csv" :> "text/csv") @@ (".json" :> "application/json")
    @@ (".pdf" :> "application/pdf") @@ (".jpg" :> "image/jpeg") @@ (".jpeg" :> "image/jpeg")
    @@ (".png" :> "image/png") @@ (".mp4" :> "video/mp4")
    @@ (".docx" :> "application/vnd.openxmlformats-officedocument.wordprocessingml.document")
    @@ (".xlsx" :> "application/vnd.openxmlformats-officedocument.spreadsheetml.sheet")
    @@ (".pptx" :> "application/vnd.openxmlformats-officedocument.presentationml.presentation")
    @@ (".py" :> "text/plain") @@ (".ipynb" :> "application/json")

\* GoogleDriveAPIClient._get_mime_type
_get_mime_type(filename) ==
    LET ext == lower(filename.ext)
    IN  IF ext \in DOMAIN EXTENSION_TO_MIME THEN EXTENSION_TO_MIME[ext]
        ELSE "application/octet-stream"

\* mime_type.startswith("text/")
IsTextMime(m) == m \in {"text/plain", "text/csv"}

(***************************************************************************)
(* The codecs the client calls.                                            *)
(***************************************************************************)
\* str.encode("utf-8"), for code points below 2048
RECURSIVE encode_utf8(_)
encode_utf8(s) ==
    IF s = <<>> THEN <<>>
    ELSE LET c == Head(s)
         IN  (IF c < 128 THEN <<c>> ELSE <<192 + (c \div 64), 128 + (c % 64)>>)
             \o encode_utf8(Tail(s))

\* bytes.decode("utf-8"): ok is false where it raises UnicodeDecodeError
RECURSIVE decode_utf8(_)
decode_utf8(b) ==
    IF b = <<>> THEN [ok |-> TRUE, text |-> <<>>]
    ELSE IF b[1] < 128
    THEN LET r == decode_utf8(Tail(b))
         IN  IF r.ok THEN [ok |-> TRUE, text |-> <<b[1]>> \o r.text] ELSE r
    ELSE IF b[1] >= 194 /\ b[1] <= 223 /\ Len(b) >= 2 /\ b[2] >= 128 /\ b[2] <= 191
    THEN LET r == decode_utf8(SubSeq(b, 3, Len(b)))
         IN  IF r.ok THEN [ok |-> TRUE, text |-> <<(b[1] - 192) * 64 + (b[2] - 128)>> \o r.text]
             ELSE r
    ELSE [ok |-> FALSE, text |-> <<>>]

\* bytes.decode("ascii")
decode_ascii(b) ==
    IF \A i \in 1..Len(b) : b[i] < 128 THEN [ok |-> TRUE, text |-> b]
    ELSE [ok |-> FALSE, text |-> <<>>]

\* file_io.getvalue().decode(encoding); an unknown encoding raises LookupError
decode(b, encoding) ==
    CASE encoding = "utf-8" -> decode_utf8(b)
      [] encoding = "ascii" -> decode_ascii(b)
      [] OTHER -> [ok |-> FALSE, text |-> <<>>]

\* the base64 alphabet: the value of a character, 64 for one outside it
b64index(c) ==
    IF c >= 65 /\ c <= 90 THEN c - 65
    ELSE IF c >= 97 /\ c <= 122 THEN c - 71
    ELSE IF c >= 48 /\ c <= 57 THEN c + 4
    ELSE IF c = 43 THEN 62
    ELSE IF c = 47 THEN 63
    ELSE 64

b64char(i) ==
    IF i < 26 THEN 65 + i
    ELSE IF i < 52 THEN 71 + i
    ELSE IF i < 62 THEN i - 4
    ELSE IF i = 62 THEN 43
    ELSE 47

\* binascii.a2b_base64, not strict: characters outside the alphabet are
\* skipped, a pad ends the input once it completes a quad, and the input must
\* not end inside a quad.
RECURSIVE a2b_base64(_, _, _, _)
a2b_base64(s, quad_pos, leftchar, pads) ==
    IF s = <<>> THEN [ok |-> quad_pos = 0, bytes |-> <<>>]
    ELSE LET c == Head(s)
             v == b64index(c)
             more(r, byte) == IF r.ok THEN [ok |-> TRUE, bytes |-> <<byte>> \o r.bytes] ELSE r
         IN  IF c = 61
             THEN IF quad_pos >= 2 /\ quad_pos + pads + 1 >= 4
                  THEN [ok |-> TRUE, bytes |-> <<>>]
                  ELSE a2b_base64(Tail(s), quad_pos, leftchar,
                                  IF quad_pos >= 2 THEN pads + 1 ELSE pads)
             ELSE IF v >= 64 THEN a2b_base64(Tail(s), quad_pos, leftchar, pads)
             ELSE CASE quad_pos = 0 -> a2b_base64(Tail(s), 1, v, 0)
                    [] quad_pos = 1 ->
                         more(a2b_base64(Tail(s), 2, v % 16, 0), leftchar * 4 + (v \div 16))
                    [] quad_pos = 2 ->
                         more(a2b_base64(Tail(s), 3, v % 4, 0), leftchar * 16 + (v \div 4))
                    [] OTHER ->
                         more(a2b_base64(Tail(s), 0, 0, 0), leftchar * 64 + v)

\* base64.b64decode(content) on a str: a non-ASCII character raises ValueError,
\* bad padding raises binascii.Error (ok is false)
b64decode(content) ==
    IF \E i \in 1..Len(content) : content[i] >= 128 THEN [ok |-> FALSE, bytes |-> <<>>]
    ELSE a2b_base64(content, 0, 0, 0)

\* base64.b64encode(data).decode("utf-8")
RECURSIVE b64encode(_)
b64encode(b) ==
    IF b = <<>> THEN <<>>
    ELSE IF Len(b) = 1
    THEN <<b64char(b[1] \div 4), b64char((b[1] % 4) * 16), 61, 61>>
    ELSE IF Len(b) = 2
    THEN <<b64char(b[1] \div 4), b64char((b[1] % 4) * 16 + (b[2] \div 16)),
           b64char((b[2] % 16) * 4), 61>>
    ELSE <<b64char(b[1] \div 4), b64char((b[1] % 4) * 16 + (b[2] \div 16)),
           b64char((b[2] % 16) * 4 + (b[3] \div 64)), b64char(b[3] % 64)>>
         \o b64encode(SubSeq(b, 4, Len(b)))

\* A document synthesized from text: the bytes of the container (its first
\* bytes tell the kind) around the text.
Synthesized(kind, text) ==
    (CASE kind = "pdf" -> <<37>>
       [] kind = "xlsx" -> <<80, 1>>
       [] kind = "pptx" -> <<80, 2>>
       [] OTHER -> <<80, 3>>)
    \o encode_utf8(text)

\* GoogleDriveAPIClient._make_pdf_bytes
_make_pdf_bytes(text) == Synthesized("pdf", text)

\* The text a document reader extracts: ok is false where the reader raises
\* (the bytes are no document of that kind).
Extracted(kind, b) ==
    LET head == IF kind = "pdf" THEN <<37>> ELSE IF kind = "xlsx" THEN <<80, 1>> ELSE <<80, 2>>
        n == Len(head)
    IN  IF Len(b) >= n /\ SubSeq(b, 1, n) = head
        THEN decode_utf8(SubSeq(b, n + 1, Len(b)))
        ELSE [ok |-> FALSE, text |-> <<>>]

(***************************************************************************)
(* The remote store, as the client's requests see it.                      *)
(***************************************************************************)
FolderMime == "application/vnd.google-apps.folder"

\* the identifier the store gives its k-th entry
IdOf(k) == Str("1aBcDeFgHiJkLmNoPqRsTuVwXyZ_" \o ToString(k), "")

Entry(name, mime, parent, bytes) ==
    [name |-> name, mimeType |-> mime, parent |-> parent, trashed |-> FALSE, bytes |-> bytes]

\* what the store reports of entry k
View(drv, k) ==
    [id |-> IdOf(k), name |-> drv[k].name, mimeType |-> drv[k].mimeType,
     parent |-> drv[k].parent, size |-> Len(drv[k].bytes)]

IndexOfId(drv, id) ==
    IF \E k \in 1..Len(drv) : IdOf(k) = id
    THEN CHOOSE k \in 1..Len(drv) : IdOf(k) = id
    ELSE 0

\* files().list(q=...): the entries from index k on that match, in the store's order
RECURSIVE Matching(_, _, _, _, _, _)
Matching(drv, k, parent, anyName, name, folderOnly) ==
    IF k > Len(drv) THEN <<>>
    ELSE LET e == drv[k]
             hit == /\ e.parent = parent
                    /\ ~e.trashed
                    /\ (anyName \/ e.name = name)
                    /\ (~folderOnly \/ e.mimeType = FolderMime)
         IN  (IF hit THEN <<View(drv, k)>> ELSE <<>>)
             \o Matching(drv, k + 1, parent, anyName, name, folderOnly)

\* the first page of a listing
FirstPage(items, pageSize) ==
    IF Len(items) <= pageSize THEN items ELSE SubSeq(items, 1, pageSize)

(***************************************************************************)
(* Results.                                                                *)
(***************************************************************************)
Success(d) == [status |-> "success", data |-> d]
Error(m) == [status |-> "error", message |-> m]
NotAuthenticated == Error([text |-> "Not authenticated"])

\* What a method body did: exc is the exception raised inside its try block
\* ("" when it returned), result what it returned, requests the remote
\* requests it issued in order, drive the store afterwards.
Return(result, requests, drv) ==
    [exc |-> "", result |-> result, requests |-> requests, drive |-> drv]
Raise(exc, requests, drv) ==
    [exc |-> exc, result |-> Error([text |-> "raised"]), requests |-> requests, drive |-> drv]

\* A mutant of Catch: the exception is not caught.
Propagate(body, prefix) ==
    [result |-> body.result, raised |-> body.exc # "", requests |-> body.requests,
     drive |-> body.drive]

\* except Exception as e: return {"status": "error", "message": f"<prefix>: {e}"}
Catch(body, prefix) ==
    [result |-> IF body.exc # "" THEN Error([text |-> prefix, exc |-> body.exc])
                ELSE body.result,
     raised |-> FALSE, requests |-> body.requests, drive |-> body.drive]

(***************************************************************************)
(* create_folder, list_directory, navigate_path.  failAt is the number of  *)
(* the remote request of the call that fails (0: none does).               *)
(***************************************************************************)
DefaultMaxResults == 100

\* A mutant of CreateBody: every parent_id that is given is sent, "root" too.
CreateBody_sentinel(name, mime, parent_id) ==
    [name |-> name, mimeType |-> mime,
     parents |-> IF parent_id # NoneStr THEN <<parent_id>> ELSE <<>>]

\* the metadata of a creation request: 'parents' is set only for a parent
\* that is given and is not "root" (an empty sequence: the key is absent)
CreateBody(name, mime, parent_id) ==
    [name |-> name, mimeType |-> mime,
     parents |-> IF parent_id # NoneStr /\ parent_id # ROOT THEN <<parent_id>> ELSE <<>>]

NoMedia == [present |-> FALSE, bytes |-> <<>>, mimetype |-> ""]
Media(bytes, mime) == [present |-> TRUE, bytes |-> bytes, mimetype |-> mime]

\* files().create(body=..., media_body=...).execute()
files_create(drv, body, media, fails, requests) ==
    LET req == [api |-> "files.create", body |-> body, media |-> media]
        parentOk == \/ body.parents = <<>>
                    \/ LET k == IndexOfId(drv, body.parents[1])
                       IN  k # 0 /\ drv[k].mimeType = FolderMime
        mime == IF body.mimeType # "" THEN body.mimeType ELSE media.mimetype
        new == Entry(body.name, mime, IF body.parents = <<>> THEN ROOT ELSE body.parents[1],
                     media.bytes)
    IN  IF fails \/ ~parentOk THEN Raise("HttpError", Append(requests, req), drv)
        ELSE Return(Success(View(Append(drv, new), Len(drv) + 1)), Append(requests, req),
                    Append(drv, new))

create_folder(svc, drv, name, parent_id, failAt) ==
    Catch(IF ~svc.bound THEN Return(NotAuthenticated, <<>>, drv)
          ELSE files_create(drv, CreateBody(name, FolderMime, parent_id), NoMedia,
                            failAt = 1, <<>>),
          "Failed to create folder")

\* A mutant of list_directory: the session check is left out.
list_directory_unguarded(svc, drv, folder_id, max_results, fails) ==
    Catch(LET parent == IF folder_id # NoneStr THEN folder_id ELSE ROOT
              req == [api |-> "files.list", parent |-> parent, pageSize |-> max_results]
          IN  IF fails THEN Raise("HttpError", <<req>>, drv)
              ELSE Return(Success(FirstPage(Matching(drv, 1, parent, TRUE, NoneStr, FALSE),
                                            max_results)),
                          <<req>>, drv),
          "Failed to list directory")

list_directory(svc, drv, folder_id, max_results, fails) ==
    Catch(IF ~svc.bound THEN Return(NotAuthenticated, <<>>, drv)
          ELSE LET parent == IF folder_id # NoneStr THEN folder_id ELSE ROOT
                   req == [api |-> "files.list", parent |-> parent, pageSize |-> max_results]
               IN  IF fails THEN Raise("HttpError", <<req>>, drv)
                   ELSE Return(Success(FirstPage(Matching(drv, 1, parent, TRUE, NoneStr, FALSE),
                                                 max_results)),
                               <<req>>, drv),
          "Failed to list directory")

\* path.split("/") of a path given as its characters ("/" or a letter)
RECURSIVE split(_, _)
split(path, cur) ==
    IF path = <<>> THEN <<cur>>
    ELSE IF Head(path) = "/" THEN <<cur>> \o split(Tail(path), "")
    ELSE split(Tail(path), cur \o Head(path))

\* [p for p in path.split("/") if p]
RECURSIVE NonEmpty(_)
NonEmpty(segs) ==
    IF segs = <<>> THEN <<>>
    ELSE (IF Head(segs) # "" THEN <<Head(segs)>> ELSE <<>>) \o NonEmpty(Tail(segs))

LookupReq(parent, name, folderOnly) ==
    [api |-> "files.lookup", parent |-> parent, name |-> name, folderOnly |-> folderOnly]

\* A mutant of walk: the lookup matches entries of any kind.
RECURSIVE walk_any_kind(_, _, _, _, _, _)
walk_any_kind(drv, parts, current_folder_id, k, failAt, requests) ==
    IF parts = <<>>
    THEN [exc |-> "", found |-> TRUE, folder |-> current_folder_id, requests |-> requests]
    ELSE LET part == Str(Head(parts), "")
             reqs == Append(requests, LookupReq(current_folder_id, part, TRUE))
             items == Matching(drv, 1, current_folder_id, FALSE, part, FALSE)
         IN  IF k = failAt
             THEN [exc |-> "HttpError", found |-> FALSE, folder |-> current_folder_id,
                   requests |-> reqs]
             ELSE IF items = <<>>
             THEN [exc |-> "", found |-> FALSE, folder |-> current_folder_id,
                   requests |-> reqs]
             ELSE walk_any_kind(drv, Tail(parts), items[1].id, k + 1, failAt, reqs)

\* the for loop of navigate_path from request k on: found is false when a
\* segment has no match
RECURSIVE walk(_, _, _, _, _, _)
walk(drv, parts, current_folder_id, k, failAt, requests) ==
    IF parts = <<>>
    THEN [exc |-> "", found |-> TRUE, folder |-> current_folder_id, requests |-> requests]
    ELSE LET part == Str(Head(parts), "")
             reqs == Append(requests, LookupReq(current_folder_id, part, TRUE))
             items == Matching(drv, 1, current_folder_id, FALSE, part, TRUE)
         IN  IF k = failAt
             THEN [exc |-> "HttpError", found |-> FALSE, folder |-> current_folder_id,
                   requests |-> reqs]
             ELSE IF items = <<>>
             THEN [exc |-> "", found |-> FALSE, folder |-> current_folder_id,
                   requests |-> reqs]
             ELSE walk(drv, Tail(parts), items[1].id, k + 1, failAt, reqs)

\* A mutant of navigate_path: the error names the segment that was not found.
navigate_path_segment(svc, drv, path, failAt) ==
    Catch(IF ~svc.bound THEN Return(NotAuthenticated, <<>>, drv)
          ELSE IF path = <<"/">> \/ path = <<>>
          THEN LET l == list_directory(svc, drv, ROOT, DefaultMaxResults, failAt = 1)
               IN  Return(l.result, l.requests, drv)
          ELSE LET w == walk(drv, NonEmpty(split(path, "")), ROOT, 1, failAt, <<>>)
               IN  IF w.exc # "" THEN Raise(w.exc, w.requests, drv)
                   ELSE IF ~w.found
                   THEN Return(Error([text |-> "Path not found",
                                      path |-> <<w.requests[Len(w.requests)].name.stem>>]),
                               w.requests, drv)
                   ELSE LET l == list_directory(svc, drv, w.folder, DefaultMaxResults,
                                                failAt = Len(w.requests) + 1)
                        IN  Return(l.result, w.requests \o l.requests, drv),
          "Failed to navigate path")

\* A mutant of navigate_path: no short-circuit for the root path, and the
\* empty segments are kept.
navigate_path_unfiltered(svc, drv, path, failAt) ==
    Catch(IF ~svc.bound THEN Return(NotAuthenticated, <<>>, drv)
          ELSE LET w == walk(drv, split(path, ""), ROOT, 1, failAt, <<>>)
               IN  IF w.exc # "" THEN Raise(w.exc, w.requests, drv)
                   ELSE IF ~w.found
                   THEN Return(Error([text |-> "Path not found", path |-> path]), w.requests, drv)
                   ELSE LET l == list_directory(svc, drv, w.folder, DefaultMaxResults,
                                                failAt = Len(w.requests) + 1)
                        IN  Return(l.result, w.requests \o l.requests, drv),
          "Failed to navigate path")

navigate_path(svc, drv, path, failAt) ==
    Catch(IF ~svc.bound THEN Return(NotAuthenticated, <<>>, drv)
          ELSE IF path = <<"/">> \/ path = <<>>
          THEN LET l == list_directory(svc, drv, ROOT, DefaultMaxResults, failAt = 1)
               IN  Return(l.result, l.requests, drv)
          ELSE LET w == walk(drv, NonEmpty(split(path, "")), ROOT, 1, failAt, <<>>)
               IN  IF w.exc # "" THEN Raise(w.exc, w.requests, drv)
                   ELSE IF ~w.found
                   THEN Return(Error([text |-> "Path not found", path |-> path]), w.requests, drv)
                   ELSE LET l == list_directory(svc, drv, w.folder, DefaultMaxResults,
                                                failAt = Len(w.requests) + 1)
                        IN  Return(l.result, w.requests \o l.requests, drv),
          "Failed to navigate path")

(***************************************************************************)
(* read_file.                                                              *)
(***************************************************************************)
IdThreshold == 20

\* GoogleDriveAPIClient._get_file_id_by_name: NoneStr is None; a failure of
\* the request is caught here and gives None as well
_get_file_id_by_name(drv, name, parent_id, fails) ==
    LET req == LookupReq(parent_id, name, FALSE)
        files == Matching(drv, 1, parent_id, FALSE, name, FALSE)
    IN  [id |-> IF fails \/ files = <<>> THEN NoneStr ELSE files[1].id,
         requests |-> <<req>>]

\* A mutant of next_chunks: each chunk is written at the start of the buffer,
\* before the ones received so far.
RECURSIVE next_chunks_rewinding(_, _, _, _, _, _)
next_chunks_rewinding(bytes, progress, chunksize, k, failAt, file_id) ==
    LET req == [api |-> "media.next_chunk", fileId |-> file_id, start |-> progress]
        end == IF progress + chunksize < Len(bytes) THEN progress + chunksize ELSE Len(bytes)
        piece == SubSeq(bytes, progress + 1, end)
    IN  IF k = failAt THEN [exc |-> "HttpError", buf |-> <<>>, requests |-> <<req>>]
        ELSE IF end = Len(bytes) THEN [exc |-> "", buf |-> piece, requests |-> <<req>>]
        ELSE LET r == next_chunks_rewinding(bytes, end, chunksize, k + 1, failAt, file_id)
             IN  [exc |-> r.exc, buf |-> r.buf \o piece, requests |-> <<req>> \o r.requests]

\* the while loop over downloader.next_chunk(): request k asks for the bytes
\* from `progress` on; the loop ends with the request that reaches the end
RECURSIVE next_chunks(_, _, _, _, _, _)
next_chunks(bytes, progress, chunksize, k, failAt, file_id) ==
    LET req == [api |-> "media.next_chunk", fileId |-> file_id, start |-> progress]
        end == IF progress + chunksize < Len(bytes) THEN progress + chunksize ELSE Len(bytes)
        piece == SubSeq(bytes, progress + 1, end)
    IN  IF k = failAt THEN [exc |-> "HttpError", buf |-> <<>>, requests |-> <<req>>]
        ELSE IF end = Len(bytes) THEN [exc |-> "", buf |-> piece, requests |-> <<req>>]
        ELSE LET r == next_chunks(bytes, end, chunksize, k + 1, failAt, file_id)
             IN  [exc |-> r.exc, buf |-> piece \o r.buf, requests |-> <<req>> \o r.requests]

TextExtensions == {".txt", ".py", ".csv", ".json", ".ipynb"}

\* the format dispatch of read_file on the stored name's extension
read_content(filename, buf, encoding) ==
    LET ext == lower(filename.ext)
    IN  IF ext \in TextExtensions THEN decode(buf, encoding)
        ELSE IF ext = ".pdf" THEN Extracted("pdf", buf)
        ELSE IF ext = ".xlsx" THEN Extracted("xlsx", buf)
        ELSE IF ext = ".pptx" THEN Extracted("pptx", buf)
        ELSE [ok |-> TRUE, text |-> b64encode(buf)]

\* A mutant of read_file: every input longer than the threshold is an identifier.
read_file_by_length(svc, drv, file_name_or_id, encoding, parent_id, failAt, chunksize) ==
    Catch(IF ~svc.bound THEN Return(NotAuthenticated, <<>>, drv)
          ELSE LET direct == StrLen(file_name_or_id) > IdThreshold
                   look == IF direct THEN [id |-> file_name_or_id, requests |-> <<>>]
                           ELSE _get_file_id_by_name(drv, file_name_or_id, parent_id, failAt = 1)
                   k == Len(look.requests) + 1
                   get == <<[api |-> "files.get", fileId |-> look.id]>>
                   idx == IndexOfId(drv, look.id)
               IN  IF look.id = NoneStr
                   THEN Return(Error([text |-> "File not found", name |-> file_name_or_id]),
                               look.requests, drv)
                   ELSE IF failAt = k \/ idx = 0
                   THEN Raise("HttpError", look.requests \o get, drv)
                   ELSE LET d == next_chunks(drv[idx].bytes, 0, chunksize, k + 1,
                                             IF drv[idx].mimeType = FolderMime THEN k + 1
                                             ELSE failAt,
                                             look.id)
                            reqs == look.requests \o get \o d.requests
                            c == read_content(drv[idx].name, d.buf, encoding)
                        IN  IF d.exc # "" THEN Raise(d.exc, reqs, drv)
                            ELSE IF ~c.ok THEN Raise("DecodeError", reqs, drv)
                            ELSE Return(Success([metadata |-> View(drv, idx),
                                                 content |-> c.text]), reqs, drv),
          "Failed to read file")

read_file(svc, drv, file_name_or_id, encoding, parent_id, failAt, chunksize) ==
    Catch(IF ~svc.bound THEN Return(NotAuthenticated, <<>>, drv)
          ELSE LET direct == /\ StrLen(file_name_or_id) > IdThreshold
                             /\ file_name_or_id.ext \notin DOMAIN EXTENSION_TO_MIME
                   look == IF direct THEN [id |-> file_name_or_id, requests |-> <<>>]
                           ELSE _get_file_id_by_name(drv, file_name_or_id, parent_id, failAt = 1)
                   k == Len(look.requests) + 1
                   get == <<[api |-> "files.get", fileId |-> look.id]>>
                   idx == IndexOfId(drv, look.id)
               IN  IF look.id = NoneStr
                   THEN Return(Error([text |-> "File not found", name |-> file_name_or_id]),
                               look.requests, drv)
                   ELSE IF failAt = k \/ idx = 0
                   THEN Raise("HttpError", look.requests \o get, drv)
                   ELSE LET d == next_chunks(drv[idx].bytes, 0, chunksize, k + 1,
                                             IF drv[idx].mimeType = FolderMime THEN k + 1
                                             ELSE failAt,
                                             look.id)
                            reqs == look.requests \o get \o d.requests
                            c == read_content(drv[idx].name, d.buf, encoding)
                        IN  IF d.exc # "" THEN Raise(d.exc, reqs, drv)
                            ELSE IF ~c.ok THEN Raise("DecodeError", reqs, drv)
                            ELSE Return(Success([metadata |-> View(drv, idx),
                                                 content |-> c.text]), reqs, drv),
          "Failed to read file")

(***************************************************************************)
(* write_file.                                                             *)
(***************************************************************************)
PdfMime == "application/pdf"
XlsxMime == "application/vnd.openxmlformats-officedocument.spreadsheetml.sheet"
PptxMime == "application/vnd.openxmlformats-officedocument.presentationml.presentation"
DocxMime == "application/vnd.openxmlformats-officedocument.wordprocessingml.document"

\* try: base64.b64decode(content)  except: a document built from the text
\* (libFails: the document library raises)
DecodedOrBuilt(kind, content, libFails) ==
    LET d == b64decode(content)
    IN  IF d.ok THEN d
        ELSE IF libFails THEN [ok |-> FALSE, bytes |-> <<>>]
        ELSE [ok |-> TRUE, bytes |-> Synthesized(kind, content)]

\* A mutant of file_stream: the text kinds try base64 first, like the fallback.
file_stream_text_b64(mime_type, content, libFails) ==
    IF mime_type = PdfMime
    THEN IF libFails THEN [ok |-> FALSE, bytes |-> <<>>]
         ELSE [ok |-> TRUE, bytes |-> _make_pdf_bytes(content)]
    ELSE IF mime_type = XlsxMime THEN DecodedOrBuilt("xlsx", content, libFails)
    ELSE IF mime_type = PptxMime THEN DecodedOrBuilt("pptx", content, libFails)
    ELSE IF mime_type = DocxMime THEN DecodedOrBuilt("docx", content, libFails)
    ELSE LET d == b64decode(content)
         IN  IF d.ok THEN d ELSE [ok |-> TRUE, bytes |-> encode_utf8(content)]

\* A mutant of file_stream: the fallback uploads the text without trying base64.
file_stream_raw_fallback(mime_type, content, libFails) ==
    IF mime_type = PdfMime
    THEN IF libFails THEN [ok |-> FALSE, bytes |-> <<>>]
         ELSE [ok |-> TRUE, bytes |-> _make_pdf_bytes(content)]
    ELSE IF mime_type = XlsxMime THEN DecodedOrBuilt("xlsx", content, libFails)
    ELSE IF mime_type = PptxMime THEN DecodedOrBuilt("pptx", content, libFails)
    ELSE IF mime_type = DocxMime THEN DecodedOrBuilt("docx", content, libFails)
    ELSE [ok |-> TRUE, bytes |-> encode_utf8(content)]

\* the bytes write_file uploads for a MIME type and a content string (ok is
\* false where building them raises)
file_stream(mime_type, content, libFails) ==
    IF mime_type = PdfMime
    THEN IF libFails THEN [ok |-> FALSE, bytes |-> <<>>]
         ELSE [ok |-> TRUE, bytes |-> _make_pdf_bytes(content)]
    ELSE IF mime_type = XlsxMime THEN DecodedOrBuilt("xlsx", content, libFails)
    ELSE IF mime_type = PptxMime THEN DecodedOrBuilt("pptx", content, libFails)
    ELSE IF mime_type = DocxMime THEN DecodedOrBuilt("docx", content, libFails)
    ELSE IF IsTextMime(mime_type) \/ mime_type = "application/json"
    THEN [ok |-> TRUE, bytes |-> encode_utf8(content)]
    ELSE LET d == b64decode(content)
         IN  IF d.ok THEN d ELSE [ok |-> TRUE, bytes |-> encode_utf8(content)]

\* files().update(fileId=..., body={'name': name}, media_body=...).execute()
files_update(drv, file_id, name, media, fails) ==
    LET req == [api |-> "files.update", fileId |-> file_id, body |-> [name |-> name],
                media |-> media]
        idx == IndexOfId(drv, file_id)
        new == IF idx = 0 THEN drv
               ELSE [drv EXCEPT ![idx].name = name, ![idx].bytes = media.bytes,
                                ![idx].mimeType = media.mimetype]
    IN  IF fails \/ idx = 0 THEN Raise("HttpError", <<req>>, drv)
        ELSE Return(Success(View(new, idx)), <<req>>, new)

\* A mutant of write_file: a file_id is followed by a creation under
\* parent_id after the update.
write_file_recreating(svc, drv, name, content, file_id, parent_id, failAt, libFails) ==
    Catch(IF ~svc.bound THEN Return(NotAuthenticated, <<>>, drv)
          ELSE LET mime_type == _get_mime_type(name)
                   stream == file_stream(mime_type, content, libFails)
                   media == Media(stream.bytes, mime_type)
               IN  IF ~stream.ok THEN Raise("CodecError", <<>>, drv)
                   ELSE IF file_id # NoneStr
                   THEN LET u == files_update(drv, file_id, name, media, failAt = 1)
                        IN  IF u.exc # "" THEN u
                            ELSE files_create(u.drive, CreateBody(name, "", parent_id), media,
                                              FALSE, u.requests)
                   ELSE files_create(drv, CreateBody(name, "", parent_id), media,
                                     failAt = 1, <<>>),
          "Failed to write file")

write_file(svc, drv, name, content, file_id, parent_id, failAt, libFails) ==
    Catch(IF ~svc.bound THEN Return(NotAuthenticated, <<>>, drv)
          ELSE LET mime_type == _get_mime_type(name)
                   stream == file_stream(mime_type, content, libFails)
                   media == Media(stream.bytes, mime_type)
               IN  IF ~stream.ok THEN Raise("CodecError", <<>>, drv)
                   ELSE IF file_id # NoneStr
                   THEN files_update(drv, file_id, name, media, failAt = 1)
                   ELSE files_create(drv, CreateBody(name, "", parent_id), media,
                                     failAt = 1, <<>>),
          "Failed to write file")

(***************************************************************************)
(* The actions: the environment's steps and one action per client method.  *)
(* `last` records the call: its inputs, the state it started from, the     *)
(* requests it issued and what it returned.                                *)
(***************************************************************************)
NoCall ==
    [op |-> "init", client |-> "c1", args |-> <<>>, result |-> Error([text |-> "none"]),
     raised |-> FALSE, requests |-> <<>>, refreshes |-> 0, bound |-> FALSE,
     creds |-> NoneFile, file |-> AbsentFile, accepted |-> FALSE, time |-> 0,
     before |-> <<>>]

\* the record of a call of an operation (not authenticate) on client c
Called(op, c, args, o) ==
    [op |-> op, client |-> c, args |-> args, result |-> o.result, raised |-> o.raised,
     requests |-> o.requests, refreshes |-> 0, bound |-> service[c].bound,
     creds |-> service[c].creds, file |-> tokenFile[user_id[c]],
     accepted |-> ~revoked[user_id[c]], time |-> now, before |-> drive]

\* time passes
Tick ==
    /\ now < MaxTime
    /\ now' = now + 1
    /\ UNCHANGED <<tokenFile, revoked, user_id, service, authLog, drive, last, users, proc>>

\* the user's refresh token is revoked at the authorization service
Revoke(u) ==
    /\ ~revoked[u]
    /\ revoked' = [revoked EXCEPT ![u] = TRUE]
    /\ UNCHANGED <<now, tokenFile, user_id, service, authLog, drive, last, users, proc>>

\* A mutant of Bound: the handle is built as soon as a credential is loaded,
\* before its validity is checked.
Bound_early(svc, a) == IF a.file.kind = "creds" THEN build(a.file) ELSE svc

\* self.service after authenticate(): assigned only on the path that returns True
Bound(svc, a) == IF a.ret THEN a.svc ELSE svc

\* client c calls authenticate(); net: the authorization service is reached
Authenticate(c, net) ==
    LET u == user_id[c]
        accepted == net /\ ~revoked[u]
        a == authenticate(tokenFile[u], now, accepted)
    IN  /\ tokenFile' = [tokenFile EXCEPT ![u] = a.file]
        /\ service' = [service EXCEPT ![c] = Bound(@, a)]
        /\ authLog' = [authLog EXCEPT ![c] = [lastRet |-> IF a.ret THEN "true" ELSE "false",
                                              everTrue |-> @.everTrue \/ a.ret]]
        /\ last' = [op |-> "authenticate", client |-> c, args |-> <<>>,
                    result |-> [ret |-> a.ret], raised |-> FALSE, requests |-> <<>>,
                    refreshes |-> a.refreshes, bound |-> service[c].bound,
                    creds |-> service[c].creds, file |-> tokenFile[u],
                    accepted |-> accepted, time |-> now, before |-> drive]
        /\ UNCHANGED <<now, revoked, user_id, drive, users, proc>>

\* an operation's outcome o becomes the state: the store is capped at MaxEntries
Operation(op, c, args, o) ==
    /\ Len(o.drive) <= MaxEntries
    /\ drive' = o.drive
    /\ last' = Called(op, c, args, o)
    /\ UNCHANGED <<now, tokenFile, revoked, user_id, service, authLog, users, proc>>

CreateFolder(c, name, parent_id, failAt) ==
    Operation("create_folder", c, [name |-> name, parent_id |-> parent_id, failAt |-> failAt],
              create_folder(service[c], drive, name, parent_id, failAt))

ListDirectory(c, folder_id, max_results, fails) ==
    Operation("list_directory", c,
              [folder_id |-> folder_id, max_results |-> max_results, fails |-> fails],
              list_directory(service[c], drive, folder_id, max_results, fails))

NavigatePath(c, path, failAt) ==
    Operation("navigate_path", c, [path |-> path, failAt |-> failAt],
              navigate_path(service[c], drive, path, failAt))

ReadFile(c, file_name_or_id, encoding, parent_id, failAt, chunksize) ==
    Operation("read_file", c,
              [file_name_or_id |-> file_name_or_id, encoding |-> encoding,
               parent_id |-> parent_id, failAt |-> failAt, chunksize |-> chunksize],
              read_file(service[c], drive, file_name_or_id, encoding, parent_id, failAt,
                        chunksize))

WriteFile(c, name, content, file_id, parent_id, failAt, libFails) ==
    Operation("write_file", c,
              [name |-> name, content |-> content, file_id |-> file_id,
               parent_id |-> parent_id, failAt |-> failAt, libFails |-> libFails],
              write_file(service[c], drive, name, content, file_id, parent_id, failAt,
                         libFails))

\* another user of the store moves an entry to the trash
Trash(k) ==
    /\ k \in 1..Len(drive)
    /\ ~drive[k].trashed
    /\ drive' = [drive EXCEPT ![k].trashed = TRUE]
    /\ last' = [last EXCEPT !.op = "trash"]
    /\ UNCHANGED <<now, tokenFile, revoked, user_id, service, authLog, users, proc>>

(***************************************************************************)
(* Inputs.                                                                 *)
(***************************************************************************)
\* 'Q' (value 16 in the base64 alphabet), '=', ',' and a non-ASCII letter
CodePoints == {81, 61, 44, 233}

Contents(n) == UNION {[1..k -> CodePoints] : k \in 0..n}

PathChars == {"/", "A"}

Paths == UNION {[1..k -> PathChars] : k \in 0..MaxPath}

\* the paths walked with a failing request: "", "/", "A" and "A/A"
FaultPaths == {<<>>, <<"/">>, <<"A">>, <<"A", "/", "A">>}

\* every extension of the table, one in upper case, and two outside the table
Extensions == DOMAIN EXTENSION_TO_MIME \cup {".TXT", ".bin", ""}

\* the token files a client may find: none, one cut short by an interrupted
\* write, or a credential the consent flow or a refresh stored (it holds an
\* access token) with or without a refresh token
InitFiles ==
    {AbsentFile, CorruptFile}
    \cup {Creds(TRUE, exp, rt) : exp \in 1..TokenLifetime, rt \in BOOLEAN}

ValidFile == Creds(TRUE, MaxTime + 1, TRUE)

(***************************************************************************)
(* The credential lifecycle: one client of one user, the clock, the        *)
(* authorization service, and the operations on a small store.             *)
(***************************************************************************)
\* the users the clients were constructed for
ClientUsers == {user_id[c] : c \in Clients}

InitAuth ==
    /\ now = 0
    /\ user_id = [c \in Clients |-> "alice"]
    /\ tokenFile \in {f \in [Users -> InitFiles] : \A u \in Users \ ClientUsers : f[u] = AbsentFile}
    /\ revoked = [u \in Users |-> FALSE]
    /\ service = [c \in Clients |-> NoService]
    /\ authLog = [c \in Clients |-> [lastRet |-> "none", everTrue |-> FALSE]]
    /\ drive = <<>>
    /\ last = NoCall
    /\ users = NoUsers
    /\ proc = [p \in Procs |-> Idle]

NextAuth ==
    \/ Tick
    \/ \E u \in ClientUsers : Revoke(u)
    \/ \E c \in Clients, net \in BOOLEAN : Authenticate(c, net)
    \/ \E c \in Clients : CreateFolder(c, Str("A", ""), ROOT, 0)
    \/ \E c \in Clients : ListDirectory(c, ROOT, DefaultMaxResults, FALSE)
    \/ \E c \in Clients : NavigatePath(c, <<"A">>, 0)
    \/ \E c \in Clients : ReadFile(c, Str("notes", ".txt"), "utf-8", ROOT, 0, 1)
    \/ \E c \in Clients : WriteFile(c, Str("notes", ".txt"), <<81>>, IdOf(1), NoneStr, 0, FALSE)

SpecAuth == InitAuth /\ [][NextAuth]_vars

(***************************************************************************)
(* The operations on the store: one client with a credential that stays   *)
(* valid, every operation with every fault, and a store of folders and     *)
(* small files that other users may trash.                                 *)
(***************************************************************************)
InitDrive ==
    /\ now = 0
    /\ user_id = [c \in Clients |-> "alice"]
    /\ tokenFile = [u \in Users |-> IF u \in ClientUsers THEN ValidFile ELSE AbsentFile]
    /\ revoked = [u \in Users |-> FALSE]
    /\ service = [c \in Clients |-> NoService]
    /\ authLog = [c \in Clients |-> [lastRet |-> "none", everTrue |-> FALSE]]
    /\ drive = <<>>
    /\ last = NoCall
    /\ users = NoUsers
    /\ proc = [p \in Procs |-> Idle]

FolderNames == {Str("A", ""), Str("B", "")}

\* what read_file is given: a stored name, an identifier, names of 20 and of
\* 21 characters without an extension, and names longer than that with a
\* known extension and with one that is known only in lower case
ReadInputs ==
    {Str("A", ""), IdOf(1),
     Str("abcdefghijklmnopqrst", ""), Str("abcdefghijklmnopqrstu", ""),
     Str("abcdefghijklmnopqrstu", ".txt"), Str("abcdefghijklmnopqrstu", ".TXT")}

\* list_directory, navigate_path and read_file leave the store, the session
\* and the token file as they are: the calls that can follow one of them are
\* the calls that can follow the state before it, so a behaviour is followed
\* up to such a call and no further
Queried == last.op \in {"list_directory", "navigate_path", "read_file"}

NextDrive ==
    \/ Authenticate("c1", TRUE)
    \/ /\ ~Queried
       /\ \E name \in FolderNames, parent_id \in {NoneStr, ROOT, IdOf(1)}, failAt \in 0..1 :
              CreateFolder("c1", name, parent_id, failAt)
    \/ /\ ~Queried
       /\ \E folder_id \in {NoneStr, ROOT, IdOf(1)}, max_results \in {1, DefaultMaxResults},
             fails \in BOOLEAN :
              ListDirectory("c1", folder_id, max_results, fails)
    \/ /\ ~Queried
       /\ \E path \in Paths : NavigatePath("c1", path, 0)
    \/ /\ ~Queried
       /\ \E path \in FaultPaths, failAt \in 1..3 : NavigatePath("c1", path, failAt)
    \/ /\ ~Queried
       /\ \E x \in ReadInputs, parent_id \in {ROOT, IdOf(1)}, failAt \in 0..2 :
              ReadFile("c1", x, "utf-8", parent_id, failAt, MaxChunk)
    \/ /\ ~Queried
       /\ \E file_id \in {NoneStr, IdOf(1)}, parent_id \in {NoneStr, ROOT, IdOf(1)} :
              WriteFile("c1", Str("A", ""), <<81, 81, 61, 61>>, file_id, parent_id, 0, FALSE)
    \/ /\ ~Queried
       /\ \E k \in 1..MaxEntries : Trash(k)

SpecDrive == InitDrive /\ [][NextDrive]_vars

(***************************************************************************)
(* The codec: the first operation of a client on the empty store creates   *)
(* one entry, a file under every name kind and with every content string,  *)
(* which is then read back; every operation with every fault.              *)
(***************************************************************************)
\* no operation was called yet
Fresh == drive = <<>> /\ last.op \in {"init", "authenticate"}

NextCodec ==
    \/ Authenticate("c1", TRUE)
    \/ /\ Fresh
       /\ \E ext \in Extensions, content \in Contents(MaxLen) :
              WriteFile("c1", Str("notes", ext), content, NoneStr, ROOT, 0, FALSE)
    \/ /\ Fresh
       /\ \E ext \in Extensions, content \in Contents(1), file_id \in {NoneStr, IdOf(1)},
             failAt \in 0..1, libFails \in BOOLEAN :
              /\ failAt = 1 \/ libFails \/ file_id # NoneStr
              /\ WriteFile("c1", Str("notes", ext), content, file_id, ROOT, failAt, libFails)
    \/ /\ ~Queried
       /\ \E x \in {IdOf(1)} \cup {drive[k].name : k \in 1..Len(drive)},
             encoding \in {"utf-8", "ascii", "utf-99"}, chunksize \in 1..MaxChunk :
              /\ encoding = "utf-8" \/ chunksize = MaxChunk
              /\ ReadFile("c1", x, encoding, ROOT, 0, chunksize)
    \/ /\ ~Queried
       /\ \E x \in {IdOf(1)} \cup {drive[k].name : k \in 1..Len(drive)}, failAt \in 1..3 :
              ReadFile("c1", x, "utf-8", ROOT, failAt, 1)
    \/ /\ Fresh
       /\ \E parent_id \in {ROOT, IdOf(1)}, failAt \in 0..1 :
              CreateFolder("c1", Str("A", ""), parent_id, failAt)
    \/ /\ ~Queried
       /\ \E fails \in BOOLEAN : ListDirectory("c1", ROOT, DefaultMaxResults, fails)
    \/ /\ ~Queried
       /\ \E path \in {<<"/">>, <<"A">>}, failAt \in 0..2 : NavigatePath("c1", path, failAt)

SpecCodec == InitDrive /\ [][NextCodec]_vars

(***************************************************************************)
(* Persisting a credential, statement by statement: the processes that     *)
(* load, refresh and write back the token file of a user (the clients'     *)
(* authenticate(), the gateway's authenticate() on a client it constructs  *)
(* and its authenticate_google()) interleave, and a process may end at any *)
(* statement.                                                              *)
(***************************************************************************)
\* the credential InstalledAppFlow.run_local_server returns at time t
consent(t) == Creds(TRUE, t + TokenLifetime, TRUE)

\* the user a client was constructed for; the gateway serves any user
Serves(p, u) == IF p \in Clients THEN u = user_id[p] ELSE TRUE

\* os.path.exists and pickle.load: authenticate() returns False when the
\* file is absent and when unpickling raises; the gateway calls
\* authenticate_google when the file is absent, where unpickling is skipped
Load(p, u) ==
    /\ proc[p].pc = "idle" /\ Serves(p, u)
    /\ LET f == tokenFile[u]
           fn == IF p \notin Clients /\ f.kind = "absent" THEN "authenticate_google"
                 ELSE "authenticate"
       IN  proc' = [proc EXCEPT ![p] =
                        IF fn = "authenticate_google"
                        THEN [pc |-> "loaded", fn |-> fn, user |-> u, creds |-> NoneFile]
                        ELSE IF f.kind = "creds"
                        THEN [pc |-> "loaded", fn |-> fn, user |-> u, creds |-> f]
                        ELSE Idle]
    /\ UNCHANGED <<now, tokenFile, revoked, user_id, service, authLog, drive, last, users>>

\* the branch after the load: creds.refresh(Request()) for an expired
\* credential with a refresh token (a rejected refresh raises and ends the
\* call), the consent flow in authenticate_google for any other credential
\* that is not valid, and otherwise nothing to persist
Refresh(p) ==
    /\ proc[p].pc = "loaded"
    /\ LET c == proc[p].creds
           u == proc[p].user
           refreshing == c.kind = "creds" /\ expired(c, now) /\ c.refresh_token
           consenting == /\ proc[p].fn = "authenticate_google" /\ ~refreshing
                         /\ (c.kind # "creds" \/ ~valid(c, now))
       IN  proc' = [proc EXCEPT ![p] =
                        IF refreshing
                        THEN (IF revoked[u] THEN Idle
                              ELSE [@ EXCEPT !.pc = "refreshed", !.creds = refresh(c, now)])
                        ELSE IF consenting
                        THEN [@ EXCEPT !.pc = "refreshed", !.creds = consent(now)]
                        ELSE [@ EXCEPT !.pc = "written"]]
    /\ UNCHANGED <<now, tokenFile, revoked, user_id, service, authLog, drive, last, users>>

\* open(token_file, "wb"): the file exists and is empty
Open(p) ==
    /\ proc[p].pc = "refreshed"
    /\ tokenFile' = [tokenFile EXCEPT ![proc[p].user] = CorruptFile]
    /\ proc' = [proc EXCEPT ![p].pc = "opened"]
    /\ UNCHANGED <<now, revoked, user_id, service, authLog, drive, last, users>>

\* pickle.dump(creds, f) and the close of the file
Dump(p) ==
    /\ proc[p].pc = "opened"
    /\ tokenFile' = [tokenFile EXCEPT ![proc[p].user] = proc[p].creds]
    /\ proc' = [proc EXCEPT ![p].pc = "written"]
    /\ UNCHANGED <<now, revoked, user_id, service, authLog, drive, last, users>>

\* the end of the call: authenticate() binds the session when the
\* credential is valid
Finish(p) ==
    /\ proc[p].pc = "written"
    /\ LET ok == valid(proc[p].creds, now)
       IN  /\ service' = IF p \in Clients /\ ok
                         THEN [service EXCEPT ![p] = build(proc[p].creds)]
                         ELSE service
           /\ authLog' = IF p \in Clients
                         THEN [authLog EXCEPT ![p] = [lastRet |-> IF ok THEN "true" ELSE "false",
                                                      everTrue |-> @.everTrue \/ ok]]
                         ELSE authLog
    /\ proc' = [proc EXCEPT ![p] = Idle]
    /\ UNCHANGED <<now, tokenFile, revoked, user_id, drive, last, users>>

\* the process is killed, or the statement it is at raises (pickle.dump on a
\* full disk): the call ends where it stands
Abort(p) ==
    /\ proc[p].pc \in {"loaded", "refreshed", "opened"}
    /\ proc' = [proc EXCEPT ![p] = Idle]
    /\ UNCHANGED <<now, tokenFile, revoked, user_id, service, authLog, drive, last, users>>

\* alice has a credential, bob has none yet
InitPersist ==
    /\ now = 0
    /\ user_id = [c \in Clients |-> "alice"]
    /\ tokenFile \in {f \in [Users -> {AbsentFile} \cup {Creds(TRUE, exp, TRUE) :
                                                        exp \in 1..TokenLifetime}] :
                          f["alice"] # AbsentFile /\ f["bob"] = AbsentFile}
    /\ revoked = [u \in Users |-> FALSE]
    /\ service = [c \in Clients |-> NoService]
    /\ authLog = [c \in Clients |-> [lastRet |-> "none", everTrue |-> FALSE]]
    /\ drive = <<>>
    /\ last = NoCall
    /\ users = NoUsers
    /\ proc = [p \in Procs |-> Idle]

\* one client of alice and the gateway, which serves alice and bob
Persisters == {"c1", "gateway"}

NextPersist ==
    \/ Tick
    \/ Revoke("alice")
    \/ \E p \in Persisters, u \in Users : Load(p, u)
    \/ \E p \in Persisters : Refresh(p)
    \/ \E p \in Persisters : Open(p)
    \/ \E p \in Persisters : Dump(p)
    \/ \E p \in Persisters : Finish(p)
    \/ \E p \in Persisters : Abort(p)

SpecPersist == InitPersist /\ [][NextPersist]_vars

(***************************************************************************)
(* The gateway: POST /auth requests, handled one after the other, for the  *)
(* users of the table; the clock and the authorization service as before.  *)
(* A password is its first 72 characters (head) and the rest (tail).       *)
(***************************************************************************)
Passwords ==
    {[head |-> "secret", tail |-> ""], [head |-> "secret", tail |-> "x"],
     [head |-> "other", tail |-> ""]}

\* data.password[:72]
truncated(password) == password.head

\* bcrypt.hash(data.password[:72]); `given` is history, not part of the hash
hash(password) == [set |-> TRUE, of |-> truncated(password), given |-> password]

\* A mutant of verify: every password is accepted.
verify_any(password, h) == TRUE

\* bcrypt.verify(data.password[:72], users[user]["password"])
verify(password, h) == h.of = truncated(password)

\* authenticate_google on the token file `file` at time t: raised when
\* unpickling, the refresh or the consent flow raises (the file is then as it
\* was); consents: the user completes the consent flow
authenticate_google(file, t, accepted, consents) ==
    LET untouched == [raised |-> TRUE, file |-> file, refreshes |-> 0, consented |-> FALSE,
                      loaded |-> file.kind # "absent"]
    IN  IF file.kind = "corrupt" THEN untouched
        ELSE IF file.kind = "creds" /\ valid(file, t)
        THEN [untouched EXCEPT !.raised = FALSE]
        ELSE IF file.kind = "creds" /\ expired(file, t) /\ file.refresh_token
        THEN IF accepted
             THEN [untouched EXCEPT !.raised = FALSE, !.file = refresh(file, t), !.refreshes = 1]
             ELSE [untouched EXCEPT !.refreshes = 1]
        ELSE IF consents
             THEN [untouched EXCEPT !.raised = FALSE, !.file = consent(t), !.consented = TRUE]
             ELSE [untouched EXCEPT !.consented = TRUE]

\* the /auth handler for user u with the password given: what it returns
\* (200, or the status of the HTTPException or of the unhandled exception)
\* and the users table and token file it leaves
auth(table, file, u, password, t, accepted, consents) ==
    IF ~table[u].set
    THEN LET g == authenticate_google(file, t, accepted, consents)
         IN  [code |-> IF g.raised THEN 500 ELSE 200, case |-> 1,
              users |-> [table EXCEPT ![u] = hash(password)],
              file |-> g.file, refreshes |-> g.refreshes, consented |-> g.consented,
              loaded |-> g.loaded]
    ELSE IF ~verify(password, table[u])
    THEN [code |-> 401, case |-> 2, users |-> table, file |-> file, refreshes |-> 0,
          consented |-> FALSE, loaded |-> FALSE]
    ELSE IF file.kind = "absent"
    THEN LET g == authenticate_google(file, t, accepted, consents)
         IN  [code |-> IF g.raised THEN 500 ELSE 200, case |-> 3, users |-> table,
              file |-> g.file, refreshes |-> g.refreshes, consented |-> g.consented,
              loaded |-> g.loaded]
    ELSE LET a == authenticate(file, t, accepted)
         IN  [code |-> IF a.ret THEN 200 ELSE 500, case |-> 4, users |-> table,
              file |-> a.file, refreshes |-> a.refreshes, consented |-> FALSE,
              loaded |-> file.kind = "creds"]

\* a POST /auth request of user u
Auth(u, password, net, consents) ==
    LET accepted == net /\ ~revoked[u]
        r == auth(users, tokenFile[u], u, password, now, accepted, consents)
    IN  /\ users' = r.users
        /\ tokenFile' = [tokenFile EXCEPT ![u] = r.file]
        /\ last' = [op |-> "auth", client |-> "gateway",
                    args |-> [user |-> u, password |-> password, consents |-> consents],
                    result |-> [code |-> r.code, case |-> r.case], raised |-> FALSE,
                    requests |-> <<>>, refreshes |-> r.refreshes, bound |-> FALSE,
                    creds |-> NoneFile, file |-> tokenFile[u], accepted |-> accepted,
                    time |-> now, before |-> <<>>, consented |-> r.consented,
                    loaded |-> r.loaded, usersBefore |-> users, filesBefore |-> tokenFile]
        /\ UNCHANGED <<now, revoked, user_id, service, authLog, drive, proc>>

\* no user is registered; a token file may be left from before (complete, or
\* cut short by an interrupted write)
InitGateway ==
    /\ now = 0
    /\ user_id = [c \in Clients |-> "alice"]
    /\ tokenFile \in {f \in [Users -> {AbsentFile, CorruptFile, Creds(TRUE, 1, FALSE)}] :
                          f["bob"] = AbsentFile}
    /\ revoked = [u \in Users |-> FALSE]
    /\ service = [c \in Clients |-> NoService]
    /\ authLog = [c \in Clients |-> [lastRet |-> "none", everTrue |-> FALSE]]
    /\ drive = <<>>
    /\ last = NoCall
    /\ users = NoUsers
    /\ proc = [p \in Procs |-> Idle]

NextGateway ==
    \/ Tick
    \/ \E u \in Users : Revoke(u)
    \/ \E u \in Users, password \in Passwords, consents \in BOOLEAN :
           Auth(u, password, TRUE, consents)

SpecGateway == InitGateway /\ [][NextGateway]_vars

(***************************************************************************)
(* Properties.                                                             *)
(***************************************************************************)
Operations == {"create_folder", "list_directory", "navigate_path", "read_file", "write_file"}

\* the persisted credential the last authenticate() call loaded
Loaded == last.op = "authenticate" /\ last.file.kind = "creds"

\* the token file of the last call's user, now
FileNow == tokenFile[user_id[last.client]]

\* C1: authenticate() on a persisted credential that is valid (access token
\* present, now < expiry) returns true, binds a session on that credential,
\* sends no refresh and leaves the persisted record as it was.
C1_ValidAuthenticatesWithoutRefresh ==
    (Loaded /\ last.file.token /\ last.time < last.file.expiry)
        => /\ last.result.ret
           /\ service[last.client] = build(last.file)
           /\ last.refreshes = 0
           /\ FileNow = last.file

C1_Witness ==
    /\ Loaded /\ last.file.token /\ last.time < last.file.expiry
    /\ last.file.refresh_token
    /\ last.result.ret /\ service[last.client].bound

\* C2: authenticate() on a persisted credential with now >= expiry and a
\* refresh token the authorization service accepts returns true, and the
\* persisted record afterwards is the refreshed credential, whose expiry is
\* strictly greater than the one persisted before.
C2_ExpiredRefreshesAndPersists ==
    (Loaded /\ last.time >= last.file.expiry /\ last.file.refresh_token /\ last.accepted)
        => /\ last.result.ret
           /\ last.refreshes = 1
           /\ FileNow = refresh(last.file, last.time)
           /\ FileNow.token /\ FileNow.refresh_token = last.file.refresh_token
           /\ FileNow.expiry > last.file.expiry
           /\ service[last.client] = build(FileNow)

C2_Witness ==
    /\ Loaded /\ last.time >= last.file.expiry /\ last.file.refresh_token /\ last.accepted
    /\ last.result.ret
    /\ FileNow.expiry > last.file.expiry

\* C3: authenticate() on an expired credential that has no refresh token, or
\* whose refresh the authorization service rejects, returns false and the
\* persisted record is the same afterwards as before.
C3_FailedRefreshLeavesRecord ==
    (Loaded /\ last.time >= last.file.expiry /\ (~last.file.refresh_token \/ ~last.accepted))
        => /\ ~last.result.ret
           /\ FileNow = last.file

C3_Witness ==
    /\ Loaded /\ last.time >= last.file.expiry
    /\ last.file.refresh_token /\ ~last.accepted /\ last.refreshes = 1
    /\ ~last.result.ret /\ FileNow = last.file

\* C4: whenever authenticate() returns false the client is unauthenticated
\* afterwards: no session handle is bound, and every operation called until
\* the next authenticate() returns 'Not authenticated', also when an earlier
\* authenticate() on the same client returned true.
C4_FalseLeavesUnauthenticated ==
    /\ (last.op = "authenticate" /\ ~last.result.ret) => ~service[last.client].bound
    /\ (last.op \in Operations /\ authLog[last.client].lastRet = "false")
           => last.result = NotAuthenticated

\* C5 as stated: every entry point checks the credential's validity at the
\* time of the call; an invalid credential with a refresh token gets exactly
\* one refresh, and when there is no refresh or it fails the call returns an
\* authentication error and issues no remote request.
C5_EveryEntryPointRefreshes ==
    /\ (Loaded /\ ~valid(last.file, last.time))
           => /\ last.refreshes = (IF last.file.refresh_token THEN 1 ELSE 0)
              /\ (~last.file.refresh_token \/ ~last.accepted) => ~last.result.ret
    /\ (last.op \in Operations /\ last.bound /\ ~valid(last.creds, last.time))
           => /\ last.refreshes = (IF last.creds.refresh_token THEN 1 ELSE 0)
              /\ (~last.creds.refresh_token \/ ~last.accepted)
                     => (last.result = NotAuthenticated /\ last.requests = <<>>)

\* C5 as amended: authenticate() is the entry point that checks expiry: it
\* sends exactly one refresh when the loaded credential is expired and has a
\* refresh token and none otherwise, and when that refresh fails it returns
\* false, binds nothing and issues no remote request.  The five operations
\* check only that a session is bound: unbound they return 'Not
\* authenticated' without a request; bound they send no refresh and go on to
\* their request, whatever the state of the session's credential.
C5_OnlyAuthenticateRefreshes ==
    /\ last.op = "authenticate"
           => /\ last.refreshes =
                     (IF Loaded /\ last.time >= last.file.expiry /\ last.file.refresh_token
                      THEN 1 ELSE 0)
              /\ last.requests = <<>>
              /\ (last.refreshes = 1 /\ ~last.accepted)
                     => (~last.result.ret /\ service[last.client].bound = last.bound)
    /\ last.op \in Operations
           => /\ last.refreshes = 0
              /\ ~last.bound => (last.result = NotAuthenticated /\ last.requests = <<>>)
              /\ last.bound => /\ last.result # NotAuthenticated
                               /\ last.op # "write_file" => last.requests # <<>>

C5_Witness ==
    /\ last.op = "list_directory" /\ last.bound
    /\ ~valid(last.creds, last.time) /\ last.creds.refresh_token
    /\ last.requests # <<>> /\ last.result.status = "success"

\* {status: success, data} or {status: error, message}
Tagged(r) ==
    \/ DOMAIN r = {"status", "data"} /\ r.status = "success"
    \/ DOMAIN r = {"status", "message"} /\ r.status = "error"

\* C6: each public operation, for every input and every failure of a remote
\* request or of a codec step, returns a tagged result; no exception leaves
\* the method, so none reaches the tool function that forwards to it.
C6_OperationsReturnTaggedResults ==
    last.op \in Operations => (~last.raised /\ Tagged(last.result))

C6_Witness ==
    /\ last.op = "read_file" /\ last.bound /\ ~last.raised
    /\ last.result.status = "error"
    /\ "exc" \in DOMAIN last.result.message
    /\ last.result.message.exc = "DecodeError"

\* a write_file call that reached its upload, and the bytes it uploaded
Uploading == last.op = "write_file" /\ last.requests # <<>>
UploadedBytes == last.requests[1].media.bytes
WrittenMime == _get_mime_type(last.args.name)

DocumentKind(mime) ==
    CASE mime = PdfMime -> "pdf"
      [] mime = XlsxMime -> "xlsx"
      [] mime = PptxMime -> "pptx"
      [] OTHER -> "docx"

\* C7: for PDF, spreadsheet, presentation and word-processing names the
\* uploaded bytes are the base64-decoded content when the decode succeeds,
\* and a document synthesized from the text only when it fails.
C7_DocumentsDecodeBeforeSynthesis ==
    (Uploading /\ WrittenMime \in {PdfMime, XlsxMime, PptxMime, DocxMime})
        => UploadedBytes =
               (IF b64decode(last.args.content).ok THEN b64decode(last.args.content).bytes
                ELSE Synthesized(DocumentKind(WrittenMime), last.args.content))

WrittenIndex == IndexOfId(drive, last.result.data.id)

\* C9: for a text-like name (.txt, .py, .csv, .json, .ipynb) and every content
\* string, write_file uploads exactly the UTF-8 bytes of the content, the
\* store holds them, and read_file of that file with encoding utf-8 returns
\* the content, whatever the chunk size of the download; a read_file that
\* succeeded on a text-like file returned text whose UTF-8 bytes are the
\* stored ones.
C9_TextRoundTrips ==
    /\ (Uploading /\ lower(last.args.name.ext) \in TextExtensions)
           => /\ UploadedBytes = encode_utf8(last.args.content)
              /\ last.result.status = "success"
                     => /\ drive[WrittenIndex].bytes = encode_utf8(last.args.content)
                        /\ \A chunksize \in 1..MaxChunk :
                               LET r == read_file(service[last.client], drive,
                                                  last.result.data.id, "utf-8", ROOT, 0,
                                                  chunksize).result
                               IN  /\ r.status = "success"
                                   /\ r.data.content = last.args.content
    /\ (/\ last.op = "read_file" /\ last.result.status = "success"
        /\ last.args.encoding = "utf-8"
        /\ lower(last.result.data.metadata.name.ext) \in TextExtensions)
           => encode_utf8(last.result.data.content)
                  = last.before[IndexOfId(last.before, last.result.data.metadata.id)].bytes

C9_Witness ==
    /\ last.op = "read_file" /\ last.result.status = "success"
    /\ last.args.encoding = "utf-8" /\ last.args.chunksize = 1
    /\ last.result.data.metadata.name.ext = ".ipynb"
    /\ last.result.data.content = <<81, 81, 233, 61>>

\* C10: on an authenticated client, navigate_path("/") and navigate_path("")
\* return what list_directory("root") returns on the store as it was at the call (and under
\* the same fault), and issue the requests of that listing and no other.
C10_RootPathListsRoot ==
    (/\ last.op = "navigate_path" /\ last.bound
     /\ last.args.path = <<"/">> \/ last.args.path = <<>>)
        => LET l == list_directory(service[last.client], last.before, ROOT, DefaultMaxResults,
                                   last.args.failAt = 1)
           IN  /\ last.result = l.result
               /\ last.requests = l.requests
               /\ \A i \in 1..Len(last.requests) : last.requests[i].api = "files.list"

C10_Witness ==
    /\ last.op = "navigate_path" /\ last.bound
    /\ last.args.path = <<"/">>
    /\ last.result.status = "success"
    /\ Len(last.result.data) = 1
    /\ \E k \in 1..Len(last.before) : last.before[k].parent # ROOT

\* the segments of the last navigate_path call's path, and the number of the
\* first one that has no folder of its name in the folder reached before it
\* (0 when every segment has one)
Segments == NonEmpty(split(last.args.path, ""))

RECURSIVE FirstMissing(_, _, _, _)
FirstMissing(drv, parts, folder, k) ==
    IF k > Len(parts) THEN 0
    ELSE LET hits == {i \in 1..Len(drv) :
                          /\ drv[i].name = Str(parts[k], "") /\ drv[i].parent = folder
                          /\ drv[i].mimeType = FolderMime /\ ~drv[i].trashed}
         IN  IF hits = {} THEN k
             ELSE FirstMissing(drv, parts, IdOf(CHOOSE i \in hits : \A j \in hits : i <= j), k + 1)

Missing == FirstMissing(last.before, Segments, ROOT, 1)

\* C11: when the first segment without a matching folder is segment k (and
\* the k lookups are answered), navigate_path returns an error result whose
\* message names the whole path as it was passed, for every path and every k.
C11_NotFoundNamesWholePath ==
    (/\ last.op = "navigate_path" /\ last.bound
     /\ Missing > 0
     /\ last.args.failAt = 0 \/ last.args.failAt > Missing)
        => /\ last.result.status = "error"
           /\ last.result.message = [text |-> "Path not found", path |-> last.args.path]

C11_Witness ==
    /\ last.op = "navigate_path" /\ last.bound /\ last.args.failAt = 0
    /\ Len(Segments) = 3 /\ Missing = 3
    /\ last.result.message = [text |-> "Path not found", path |-> last.args.path]

\* the creation requests of the last call
CreationRequests == {i \in 1..Len(last.requests) : last.requests[i].api = "files.create"}

\* C12: every creation request of create_folder and of write_file without
\* file_id carries a parent reference, the parent_id of the call, exactly
\* when parent_id is given and is not "root"; "root" is never sent.
C12_RootIsNeverSentAsParent ==
    (last.op \in {"create_folder", "write_file"})
        => \A i \in CreationRequests :
               /\ last.requests[i].body.parents =
                      (IF last.args.parent_id # NoneStr /\ last.args.parent_id # ROOT
                       THEN <<last.args.parent_id>> ELSE <<>>)
               /\ \A j \in 1..Len(last.requests[i].body.parents) :
                      last.requests[i].body.parents[j] # ROOT

C12_Witness ==
    /\ last.op = "write_file" /\ last.args.file_id = NoneStr
    /\ last.args.parent_id = ROOT
    /\ last.result.status = "success"
    /\ CreationRequests = {1} /\ last.requests[1].body.parents = <<>>
    /\ drive[Len(drive)].parent = ROOT

\* C13: whatever the interleaving of the processes that persist a user's
\* credential and wherever one of them ends, a token file that holds a
\* complete credential holds a complete credential after every step: the
\* overwrite never leaves it empty or partially written.
C13_PersistIsAtomic ==
    [][\A u \in Users : tokenFile[u].kind = "creds" => tokenFile'[u].kind = "creds"]_vars

\* the chunk requests of the last call, in the order they were issued
ChunkRequests == SelectSeq(last.requests, LAMBDA r : r.api = "media.next_chunk")

\* the entry a successful read_file read, as it was stored at the call
ReadEntry == last.before[IndexOfId(last.before, last.result.data.metadata.id)]

\* C14: a read_file that succeeds has requested the chunks of the payload in
\* order, each starting where the one before ended, none twice; no request
\* before the last reached the end of the payload and the last one did, so
\* the loop ended exactly at completion; and the content returned is the
\* decoding of the whole stored payload: the chunks concatenated in order.
\* This holds for every payload and every chunk size.
C14_ChunksConcatenateInOrder ==
    (last.op = "read_file" /\ last.result.status = "success")
        => LET size == Len(ReadEntry.bytes)
               cs == last.args.chunksize
               n == Len(ChunkRequests)
           IN  /\ n >= 1
               /\ \A i \in 1..n : ChunkRequests[i].start = (i - 1) * cs
               /\ \A i \in 1..(n - 1) : ChunkRequests[i].start + cs < size
               /\ ChunkRequests[n].start + cs >= size
               /\ last.result.data.content =
                      read_content(ReadEntry.name, ReadEntry.bytes, last.args.encoding).text

C14_Witness ==
    /\ last.op = "read_file" /\ last.result.status = "success"
    /\ ReadEntry.name.ext = ".png"
    /\ last.args.chunksize = 2 /\ Len(ChunkRequests) = 3
    /\ ReadEntry.bytes = <<195, 169, 81, 195, 169>>
    /\ last.result.data.content = b64encode(<<195, 169, 81, 195, 169>>)

\* the name lookups of the last call
LookupRequests == SelectSeq(last.requests, LAMBDA r : r.api = "files.lookup")

\* the entries of the store at the call that a lookup of the input in
\* parent_id matches
NameMatches ==
    {i \in 1..Len(last.before) :
         /\ last.before[i].name = last.args.file_name_or_id
         /\ last.before[i].parent = last.args.parent_id
         /\ ~last.before[i].trashed}

\* C15: read_file takes its input for an identifier exactly when the input is
\* longer than 20 characters and does not end in a known extension: then it
\* issues no lookup and fetches the metadata of that identifier.  Otherwise
\* its first request is the one lookup it issues, of the exact name inside
\* parent_id, and when nothing matches it returns the not-found error with
\* no further request.
C15_IdentifierOrOneLookup ==
    (last.op = "read_file" /\ last.bound)
        => LET x == last.args.file_name_or_id
           IN  IF StrLen(x) > 20 /\ x.ext \notin DOMAIN EXTENSION_TO_MIME
               THEN /\ LookupRequests = <<>>
                    /\ last.requests[1] = [api |-> "files.get", fileId |-> x]
               ELSE /\ LookupRequests = <<LookupReq(last.args.parent_id, x, FALSE)>>
                    /\ last.requests[1] = LookupRequests[1]
                    /\ NameMatches = {}
                           => /\ last.requests = LookupRequests
                              /\ last.result = Error([text |-> "File not found", name |-> x])

C15_Witness ==
    /\ last.op = "read_file" /\ last.bound /\ last.args.failAt = 0
    /\ last.args.file_name_or_id = Str("abcdefghijklmnopqrstu", ".txt")
    /\ Len(last.before) = MaxEntries
    /\ last.requests = LookupRequests /\ Len(LookupRequests) = 1
    /\ last.result.status = "error"

\* the last call is a write_file on a bound client whose payload was built
\* (the call reached its upload)
Written ==
    /\ last.op = "write_file" /\ last.bound
    /\ file_stream(WrittenMime, last.args.content, last.args.libFails).ok

\* C16: a write_file with a file_id that reaches its upload issues one
\* request, an update of that identifier carrying the name and the payload,
\* and no creation: the store has the entries it had, each with the parent it
\* had, whatever parent_id was passed, and on success the entry of that
\* identifier has the new name and content.  Without a file_id it issues one
\* request, a creation, and no update.
C16_UpdateInPlaceOrCreate ==
    Written
        => /\ Len(last.requests) = 1
           /\ IF last.args.file_id # NoneStr
              THEN /\ last.requests[1].api = "files.update"
                   /\ last.requests[1].fileId = last.args.file_id
                   /\ last.requests[1].body = [name |-> last.args.name]
                   /\ Len(drive) = Len(last.before)
                   /\ \A k \in 1..Len(drive) :
                          /\ drive[k].parent = last.before[k].parent
                          /\ IdOf(k) # last.args.file_id => drive[k] = last.before[k]
                   /\ last.result.status = "success"
                          => /\ last.result.data.id = last.args.file_id
                             /\ drive[IndexOfId(drive, last.args.file_id)].name = last.args.name
                             /\ drive[IndexOfId(drive, last.args.file_id)].bytes
                                    = last.requests[1].media.bytes
              ELSE last.requests[1].api = "files.create"

C16_Witness ==
    /\ Written /\ last.args.file_id = IdOf(1) /\ last.args.parent_id = IdOf(1)
    /\ last.result.status = "success"
    /\ Len(last.before) = 2 /\ Len(drive) = 2
    /\ last.before[1].name = Str("B", "") /\ drive[1].name = Str("A", "")
    /\ drive[1].parent = ROOT

\* the folders of the store at the call, not trashed, that have the name of
\* segment k and lie in `folder`
FoldersNamed(k, folder) ==
    {i \in 1..Len(last.before) :
         /\ last.before[i].name = Str(Segments[k], "") /\ last.before[i].parent = folder
         /\ last.before[i].mimeType = FolderMime /\ ~last.before[i].trashed}

\* the folder in which segment k is looked up: root for the first, and the
\* first folder that matched segment k - 1 for the others
RECURSIVE FolderAt(_)
FolderAt(k) ==
    IF k = 1 THEN ROOT
    ELSE LET hits == FoldersNamed(k - 1, FolderAt(k - 1))
         IN  IdOf(CHOOSE i \in hits : \A j \in hits : i <= j)

\* C17: a navigate_path whose requests are all answered looks its non-empty
\* segments up in order, segment k among the folders, not trashed, of the
\* folder that was the first match of segment k - 1 (root for the first);
\* the first segment without a match ends the call with no further request;
\* when every segment matched, one listing follows the lookups, of the
\* folder the last segment reached, and its result is returned.
C17_SegmentsWalkedInOrder ==
    (last.op = "navigate_path" /\ last.bound /\ last.args.failAt = 0)
        => LET n == IF Missing = 0 THEN Len(Segments) ELSE Missing
           IN  /\ \A k \in 1..n :
                      last.requests[k] = LookupReq(FolderAt(k), Str(Segments[k], ""), TRUE)
               /\ IF Missing # 0 THEN Len(last.requests) = n
                  ELSE /\ Len(last.requests) = n + 1
                       /\ last.requests[n + 1] = [api |-> "files.list", parent |-> FolderAt(n + 1),
                                                  pageSize |-> DefaultMaxResults]
                       /\ last.result = list_directory(service[last.client], last.before,
                                                       FolderAt(n + 1), DefaultMaxResults,
                                                       FALSE).result

C17_Witness ==
    /\ last.op = "navigate_path" /\ last.bound /\ last.args.failAt = 0
    /\ Len(Segments) = 1 /\ Missing = 0
    /\ Len(last.before) = 2
    /\ last.before[1].name = Str("A", "") /\ last.before[1].mimeType # FolderMime
    /\ last.before[2].name = Str("A", "") /\ last.before[2].mimeType = FolderMime
    /\ last.requests[2].parent = IdOf(2)
    /\ last.result.status = "success"

\* C18: on a client on which no authenticate() has returned true, no session
\* handle is bound and each of the five operations returns 'Not
\* authenticated', issues no request and leaves the store as it is; and the
\* session handle of a client changes only in a step that is an
\* authenticate() call of that client returning true.
C18_UnauthenticatedClientsDoNothing ==
    /\ [](/\ \A c \in Clients : ~authLog[c].everTrue => service[c] = NoService
          /\ (last.op \in Operations /\ ~authLog[last.client].everTrue)
                 => /\ last.result = NotAuthenticated
                    /\ last.requests = <<>>
                    /\ drive = last.before)
    /\ [][\A c \in Clients :
              service'[c] # service[c]
                  => /\ last'.op = "authenticate" /\ last'.client = c
                     /\ last'.result.ret
                     /\ service'[c].bound]_vars

C18_Witness ==
    /\ last.op = "write_file" /\ last.client = "c2"
    /\ authLog["c2"] = [lastRet |-> "false", everTrue |-> FALSE]
    /\ authLog["c1"].everTrue /\ service["c1"].bound
    /\ drive # <<>>
    /\ last.result = NotAuthenticated

\* the last step is an /auth request of a user who was registered before it
AuthOfRegistered ==
    last.op = "auth" /\ last.usersBefore[last.args.user].set

\* the request was rejected and did nothing
Rejected ==
    /\ last.result.code = 401
    /\ users = last.usersBefore /\ tokenFile = last.filesBefore
    /\ ~last.consented /\ ~last.loaded /\ last.refreshes = 0

\* the entry of a registered user stays as it is in every step
HashKept == [][\A u \in Users : users[u].set => users'[u] = users[u]]_vars

\* C19 as stated: a registered user's hash is never replaced, and an /auth
\* request of a registered user with a password other than the registered
\* one is rejected with 401 and has no effect.
C19_WrongPasswordRejected ==
    /\ HashKept
    /\ []((AuthOfRegistered
             /\ last.args.password # last.usersBefore[last.args.user].given) => Rejected)

\* C19 as amended: a registered user's hash is never replaced, and an /auth
\* request of a registered user with a password whose first 72 characters
\* differ from those of the registered one is rejected with 401 and has no
\* effect.
C19_WrongPrefixRejected ==
    /\ HashKept
    /\ []((AuthOfRegistered
             /\ truncated(last.args.password)
                    # truncated(last.usersBefore[last.args.user].given)) => Rejected)

C19_Witness ==
    /\ AuthOfRegistered /\ last.args.user = "alice"
    /\ last.args.password.head = "other"
    /\ last.usersBefore["alice"].given.head = "secret"
    /\ last.file.kind = "creds" /\ expired(last.file, last.time)
    /\ Rejected

\* C20: an /auth request with the registered password, by a user whose
\* persisted credential is expired and cannot be refreshed (it has no refresh
\* token, or the refresh is rejected), runs the consent flow again and, the
\* user consenting, succeeds.
C20_FailedRefreshRerunsConsent ==
    (/\ AuthOfRegistered
     /\ last.args.password = last.usersBefore[last.args.user].given
     /\ last.args.consents
     /\ last.file.kind = "creds" /\ expired(last.file, last.time)
     /\ ~last.file.refresh_token \/ ~last.accepted)
        => (last.consented /\ last.result.code = 200)

====
